---- MODULE Spec2Model ----
(***************************************************************************)
(* The weather pipeline of server.js: POST /api/weather-info runs          *)
(* analyzeQueryWithGaia -> getNubilaWeather -> generateLLMWeatherAdvice    *)
(* and answers 200, 400 or 500.  One pipeline run is modelled; the handler *)
(* is cut at its awaits, so each action is the code between two awaits.    *)
(*                                                                         *)
(* JavaScript values are records [t, n, s]: t is the type tag, n the       *)
(* number, s the string as a sequence of text pieces (so that trim,        *)
(* indexOf, substring, concatenation and "contains" are computed).         *)
(***************************************************************************)
EXTENDS Integers, Sequences, FiniteSets, TLC

\* ---------------------------------------------------------------- bounds
\* longest model reply, in pieces, handed to the JSON extraction
MaxContentLen == 4
\* longest forecast array the provider returns
MaxEntries == 2
\* longest list handed to groupForecastsByDay
MaxForecastLen == 5
\* longest reply text handed to the JSON extraction alone
MaxReplyLen == 5

\* ------------------------------------------------------- JavaScript values
Num(n) == [t |-> "number", n |-> n, s |-> <<>>]
Str(s) == [t |-> "string", n |-> 0, s |-> s]
Null == [t |-> "null", n |-> 0, s |-> <<>>]
Undef == [t |-> "undefined", n |-> 0, s |-> <<>>]
Obj == [t |-> "object", n |-> 0, s |-> <<>>]

\* typeof x
TypeOf(x) == IF x.t = "null" THEN "object" ELSE x.t

\* ToBoolean(x): 0, "", null and undefined are falsy
Truthy(x) ==
    CASE x.t = "number" -> x.n # 0
      [] x.t = "string" -> x.s # <<>>
      [] x.t = "object" -> TRUE
      [] OTHER -> FALSE

\* a || b
Or(a, b) == IF Truthy(a) THEN a ELSE b

RECURSIVE Digits(_)
Digits(n) ==
    IF n < 10 THEN <<ToString(n)>> ELSE Digits(n \div 10) \o <<ToString(n % 10)>>

\* `${x}` in a template literal
ToStr(x) ==
    CASE x.t = "number" -> IF x.n < 0 THEN <<"-">> \o Digits(-x.n) ELSE Digits(x.n)
      [] x.t = "string" -> x.s
      [] x.t = "null" -> <<"null">>
      [] x.t = "undefined" -> <<"undefined">>
      [] OTHER -> <<"[object Object]">>

\* String.prototype.indexOf(ch): -1 when absent, 0-based otherwise
IndexOf(s, ch) ==
    IF \E i \in 1..Len(s) : s[i] = ch
    THEN (CHOOSE i \in 1..Len(s) : s[i] = ch /\ \A j \in 1..(i - 1) : s[j] # ch) - 1
    ELSE -1

LastIndexOfMutant(s, ch) == IndexOf(s, ch)
\* String.prototype.lastIndexOf(ch)
LastIndexOf(s, ch) ==
    IF \E i \in 1..Len(s) : s[i] = ch
    THEN (CHOOSE i \in 1..Len(s) : s[i] = ch /\ \A j \in (i + 1)..Len(s) : s[j] # ch) - 1
    ELSE -1

Min(a, b) == IF a < b THEN a ELSE b
Max(a, b) == IF a > b THEN a ELSE b
Clamp(i, len) == Max(0, Min(i, len))

\* String.prototype.substring(a, b): clamps, and swaps when a > b
Substring(s, a, b) ==
    LET lo == Min(Clamp(a, Len(s)), Clamp(b, Len(s)))
        hi == Max(Clamp(a, Len(s)), Clamp(b, Len(s)))
    IN  SubSeq(s, lo + 1, hi)

\* String.prototype.trim()
RECURSIVE Trim(_)
Trim(s) ==
    IF s = <<>> THEN s
    ELSE IF Head(s) = " " THEN Trim(Tail(s))
    ELSE IF s[Len(s)] = " " THEN Trim(SubSeq(s, 1, Len(s) - 1))
    ELSE s

\* String.prototype.includes(sub)
Includes(s, sub) ==
    \E i \in 0..(Len(s) - Len(sub)) : SubSeq(s, i + 1, i + Len(sub)) = sub

SeqsUpTo(S, n) == UNION {[1..k -> S] : k \in 0..n}

\* ------------------------------------------------------------ error values
\* new Error(msg).message, as a string
FetchFailed == <<"fetch failed">>
BadBody == <<"invalid json response body">>
TypeErrorUndefined == <<"Cannot read properties of undefined">>
TypeErrorNull == <<"Cannot read properties of null">>
JsonSyntaxError == <<"Unexpected token in JSON">>

\* the result of an async function: a returned value or a thrown Error
Return(v) == [ok |-> TRUE, value |-> v, message |-> <<>>]
Throw(msg) == [ok |-> FALSE, value |-> Undef, message |-> msg]

\* -------------------------------------------------- language-model endpoint
\* HTTP statuses an upstream answers with; response.ok is status in 200..299
Statuses == {200, 503}
ResponseOk(status) == status >= 200 /\ status <= 299

\* pieces of a model reply: prose, braces, and the member list of an object
Pieces == {"p", "{", "}", "f"}
ExtractionContents ==
    {Undef} \cup {Str(s) : s \in SeqsUpTo(Pieces, MaxContentLen)}
AdviceContents == {Undef, Str(<<>>), Str(<<"Enjoy the sun!">>)}

\* what fetch(GAIA_API_ENDPOINT) can come back with: a transport failure, a
\* body that is not JSON, a JSON body without choices, or choices[0].message.content
GaiaReplies(contents) ==
    {[kind |-> "transport", status |-> 0, content |-> Undef]}
    \cup {[kind |-> k, status |-> st, content |-> Undef] :
            k \in {"badbody", "nochoices"}, st \in Statuses}
    \cup {[kind |-> "json", status |-> st, content |-> c] :
            st \in Statuses, c \in contents}

\* the object the member list "f" of a reply denotes
CoordValues == {Num(48), Num(0), Str(<<"2.35">>), Null, Undef}
RequestTypeValues ==
    {Str(<<"current">>), Str(<<"forecast">>), Str(<<"hourly">>), Undef}
LocationValues == {Str(<<"Paris">>), Str(<<>>), Undef}
Analyses ==
    [locationName : LocationValues, latitude : CoordValues,
     longitude : CoordValues, requestType : RequestTypeValues]
EmptyObject ==
    [locationName |-> Undef, latitude |-> Undef,
     longitude |-> Undef, requestType |-> Undef]

\* JSON.parse(jsonString): "{f}" is the object, "{}" the empty object, and
\* anything else a SyntaxError
JsonParses(jsonString) == jsonString \in {<<"{", "f", "}">>, <<"{", "}">>}
JsonParse(jsonString, obj) ==
    IF jsonString = <<"{", "f", "}">> THEN obj ELSE EmptyObject

\* content.substring(content.indexOf('{'), content.lastIndexOf('}') + 1)
JsonSlice(content) ==
    Substring(content, IndexOf(content, "{"), LastIndexOf(content, "}") + 1)

MissingFieldsMutant(a) == ~Truthy(a.locationName)
\* !analysis.locationName || typeof analysis.requestType === 'undefined'
MissingFields(a) ==
    ~Truthy(a.locationName) \/ TypeOf(a.requestType) = "undefined"

\* the coordinate branch: entered when either typeof is not 'number', and
\* then each field is replaced by (field || null)
CoerceCoordinates(a) ==
    IF TypeOf(a.latitude) # "number" \/ TypeOf(a.longitude) # "number"
    THEN [a EXCEPT !.latitude = Or(a.latitude, Null),
                   !.longitude = Or(a.longitude, Null)]
    ELSE a

FailedToParse(msg) == <<"Failed to parse JSON from Gaia response: ">> \o msg
CouldNotAnalyze(msg) == <<"Could not analyze query with Gaia: ">> \o msg

\* the inner try of analyzeQueryWithGaia, on a reply text
ParseAnalysis(content, obj) ==
    IF IndexOf(content, "{") = -1 \/ LastIndexOf(content, "}") = -1
    THEN Throw(FailedToParse(<<"Could not find JSON object in Gaia response.">>))
    ELSE IF ~JsonParses(JsonSlice(content))
    THEN Throw(FailedToParse(JsonSyntaxError))
    ELSE IF MissingFields(JsonParse(JsonSlice(content), obj))
    THEN Throw(FailedToParse(
           <<"Gaia response missing required fields (locationName, requestType).">>))
    ELSE Return(CoerceCoordinates(JsonParse(JsonSlice(content), obj)))

StatusMessage(status) ==
    <<"Gaia API request failed with status ">> \o Digits(status)

\* analyzeQueryWithGaia, given what the endpoint answered
analyzeQueryWithGaia(reply, obj) ==
    LET inner ==
          IF reply.kind = "transport" THEN Throw(FetchFailed)
          ELSE IF ~ResponseOk(reply.status) THEN Throw(StatusMessage(reply.status))
          ELSE IF reply.kind = "badbody" THEN Throw(BadBody)
          ELSE IF reply.kind = "nochoices" THEN Throw(TypeErrorUndefined)
          ELSE IF ~Truthy(reply.content)
          THEN Throw(<<"Invalid response format from Gaia: No content.">>)
          ELSE ParseAnalysis(reply.content.s, obj)
    IN  IF inner.ok THEN inner
        ELSE [inner EXCEPT !.message = CouldNotAnalyze(inner.message)]


\* --------------------------------------------------------- weather provider
\* the temperature and temp fields of an entry: either can be absent, and a
\* temperature can be 0
TemperaturePairs ==
    {<<Undef, Undef>>, <<Undef, Num(18)>>, <<Num(0), Undef>>,
     <<Num(0), Num(18)>>, <<Num(21), Num(18)>>}
Conditions == {"Rain", "Clear"}

\* one entry of the provider's data; uv is optional
Reading(temperature, temp, condition) ==
    [temperature |-> temperature, temp |-> temp,
     feels_like |-> IF condition = "Rain" THEN Num(19) ELSE Num(0),
     condition |-> Str(<<condition>>),
     condition_desc |-> Str(IF condition = "Rain" THEN <<"light rain">> ELSE <<"clear sky">>),
     wind_speed |-> IF condition = "Rain" THEN Num(5) ELSE Num(2),
     humidity |-> IF condition = "Rain" THEN Num(80) ELSE Num(40),
     uv |-> IF condition = "Rain" THEN Undef ELSE Num(7),
     temperature_min |-> IF condition = "Rain" THEN Num(10) ELSE Num(12),
     temperature_max |-> IF condition = "Rain" THEN Num(15) ELSE Num(25)]
Readings == {Reading(tt[1], tt[2], c) : tt \in TemperaturePairs, c \in Conditions}
NoReading == Reading(Undef, Undef, "Clear")

\* the data field of a payload: absent, null, one object, or an array
DataAbsent == [t |-> "undefined", obj |-> NoReading, arr |-> <<>>]
DataNull == [t |-> "null", obj |-> NoReading, arr |-> <<>>]
DataObject(r) == [t |-> "object", obj |-> r, arr |-> <<>>]
DataArray(a) == [t |-> "array", obj |-> NoReading, arr |-> a]
DataValues ==
    {DataAbsent, DataNull} \cup {DataObject(r) : r \in Readings}
    \cup {DataArray(a) : a \in SeqsUpTo(Readings, MaxEntries)}

\* the JSON body of the provider's response; ok is true, false or absent,
\* and an error body carries a message or none
Payloads ==
    [ok : {"true", "absent"}, message : {Undef}, data : DataValues]
    \cup [ok : {"false"}, message : {Undef, Str(<<"quota exceeded">>)},
          data : {DataAbsent, DataNull}]
NoPayload == [ok |-> "absent", message |-> Undef, data |-> DataAbsent]

\* what fetch(url) can come back with: a transport failure, a body that is
\* not JSON, or a JSON body with a status
NubilaReplies ==
    {[kind |-> "transport", status |-> 0, body |-> NoPayload]}
    \cup {[kind |-> "badbody", status |-> st, body |-> NoPayload] : st \in Statuses}
    \cup {[kind |-> "json", status |-> st, body |-> b] : st \in Statuses, b \in Payloads}

InvalidCoordinatesMessage ==
    <<"Invalid or missing latitude/longitude for Nubila API call.">>

\* the guard of getNubilaWeather, thrown before the fetch and outside its try
InvalidCoordinates(lat, lon) ==
    lat = Null \/ lon = Null \/ TypeOf(lat) # "number" \/ TypeOf(lon) # "number"

\* type === 'forecast' ? 'forecast' : 'weather'
Endpoint(type) == IF type = Str(<<"forecast">>) THEN "forecast" ELSE "weather"

CouldNotFetch(msg) == <<"Could not fetch weather data from Nubila: ">> \o msg

\* !response.ok || data.ok === false
ProviderFailed(reply) == ~ResponseOk(reply.status) \/ reply.body.ok = "false"

\* the try of getNubilaWeather, given what the provider answered
getNubilaWeather(reply) ==
    IF reply.kind = "transport" THEN Throw(CouldNotFetch(FetchFailed))
    ELSE IF reply.kind = "badbody" THEN Throw(CouldNotFetch(BadBody))
    ELSE IF ProviderFailed(reply)
    THEN Throw(CouldNotFetch(
           ToStr(Or(reply.body.message,
                    Str(<<"Nubila API request failed with status ">>
                        \o Digits(reply.status))))))
    ELSE [ok |-> TRUE, value |-> reply.body, message |-> <<>>]

\* -------------------------------------------------------------- normalizer
\* lines 163-174: the current reading and the forecast tail (null when data
\* is no array)
IsArray(data) == data.t = "array"
HasCurrent(data) ==
    IF IsArray(data) THEN Len(data.arr) >= 1 ELSE data.t = "object"
CurrentData(data) == IF IsArray(data) THEN data.arr[1] ELSE data.obj
\* weatherData.data.slice(1)
ForecastTail(data) ==
    IF IsArray(data) THEN SubSeq(data.arr, 2, Len(data.arr)) ELSE <<>>

\* reading a property of currentData throws a TypeError when currentData is
\* undefined (data absent, or an empty array) or null
NormalizeThrows(data) == ~HasCurrent(data)
NormalizeError(data) == IF data.t = "null" THEN TypeErrorNull ELSE TypeErrorUndefined

\* forecast && forecast.length > 0
HasForecast(data) == IsArray(data) /\ Len(ForecastTail(data)) > 0

TomorrowEntryMutant(data) == data.arr[1]
\* forecast[0]
TomorrowEntry(data) == ForecastTail(data)[1]

CurrentTemperature(r) == Or(r.temperature, r.temp)

NoForecast ==
    [condition |-> Undef, description |-> Undef, tempMin |-> Undef,
     tempMax |-> Undef, humidity |-> Undef]

\* weatherContext, lines 177-202; forecast.tomorrow is present iff hasForecast
WeatherContext(data, locationName) ==
    [location |-> locationName,
     current |->
       [temperature |-> CurrentTemperature(CurrentData(data)),
        feelsLike |-> CurrentData(data).feels_like,
        condition |-> CurrentData(data).condition,
        description |-> CurrentData(data).condition_desc,
        windSpeed |-> CurrentData(data).wind_speed,
        humidity |-> CurrentData(data).humidity,
        uvIndex |-> Or(CurrentData(data).uv, Num(0)),
        isDay |-> TRUE],
     hasForecast |-> HasForecast(data),
     tomorrow |->
       IF HasForecast(data)
       THEN [condition |-> TomorrowEntry(data).condition,
             description |-> TomorrowEntry(data).condition_desc,
             tempMin |-> TomorrowEntry(data).temperature_min,
             tempMax |-> TomorrowEntry(data).temperature_max,
             humidity |-> TomorrowEntry(data).humidity]
       ELSE NoForecast]
NoContext ==
    [location |-> Undef,
     current |->
       [temperature |-> Undef, feelsLike |-> Undef, condition |-> Undef,
        description |-> Undef, windSpeed |-> Undef, humidity |-> Undef,
        uvIndex |-> Undef, isDay |-> TRUE],
     hasForecast |-> FALSE, tomorrow |-> NoForecast]

\* ---------------------------------------------------------- advice generator
\* the fallback template of the catch, line 262
FallbackAdvice(data, locationName) ==
    <<"Weather for ">> \o ToStr(locationName) \o <<": ">>
    \o ToStr(CurrentData(data).condition_desc) \o <<", ">>
    \o ToStr(CurrentTemperature(CurrentData(data))) \o <<"°C (feels like ">>
    \o ToStr(CurrentData(data).feels_like)
    \o <<"°C). Take care and have a wonderful day!">>

\* the error the try of generateLLMWeatherAdvice raises on a reply, "" if none
AdviceError(reply) ==
    IF reply.kind = "transport" THEN FetchFailed
    ELSE IF ~ResponseOk(reply.status) THEN StatusMessage(reply.status)
    ELSE IF reply.kind = "badbody" THEN BadBody
    ELSE IF reply.kind = "nochoices" THEN TypeErrorUndefined
    ELSE IF ~Truthy(reply.content)
    THEN <<"Invalid response format from Gaia for weather advice: No content.">>
    ELSE <<>>

AdviceCatchMutant(reply, data, locationName) ==
    IF ~ResponseOk(reply.status) /\ reply.kind # "transport"
    THEN Throw(AdviceError(reply))
    ELSE [ok |-> TRUE, value |-> FallbackAdvice(data, locationName), message |-> <<>>]
\* the catch of generateLLMWeatherAdvice: every error becomes the fallback
AdviceCatch(reply, data, locationName) ==
    [ok |-> TRUE, value |-> FallbackAdvice(data, locationName), message |-> <<>>]

\* the try/catch of generateLLMWeatherAdvice, given what the endpoint answered
generateLLMWeatherAdvice(reply, data, locationName) ==
    IF AdviceError(reply) = <<>>
    THEN [ok |-> TRUE, value |-> reply.content.s, message |-> <<>>]
    ELSE AdviceCatch(reply, data, locationName)


\* ------------------------------------------------------------ the handler
\* req.body.query: missing, not a string, or a string of characters
QueryStrings ==
    {<<>>, <<" ">>, <<" ", " ">>, <<"a">>, <<" ", "a", " ">>}
QueryValues ==
    {Undef, Null, Num(0), Num(5), Obj} \cup {Str(s) : s \in QueryStrings}

QueryInvalidMutant(q) == ~Truthy(q) \/ TypeOf(q) # "string"
\* !query || typeof query !== 'string' || query.trim() === ''
QueryInvalid(q) == ~Truthy(q) \/ TypeOf(q) # "string" \/ Trim(q.s) = <<>>

CoordinatesMissingMutant(a) == a.latitude = Null /\ a.longitude = Null
\* !analysis || analysis.latitude === null || analysis.longitude === null
CoordinatesMissing(a) == a.latitude = Null \/ a.longitude = Null

\* `Could not determine valid coordinates for "${analysis?.locationName || query}"...`
CoordinatesMessage(a, q) ==
    <<"Could not determine valid coordinates for \"">>
    \o ToStr(Or(a.locationName, q)) \o <<"\". Please be more specific.">>

InternalError == <<"An internal server error occurred.">>
ErrorMessageMutant(msg) == InternalError
\* error.message || "An internal server error occurred."
ErrorMessage(msg) == IF msg # <<>> THEN msg ELSE InternalError

NoResponse ==
    [status |-> 0, ok |-> FALSE, message |-> <<>>, requestDetails |-> EmptyObject,
     weatherData |-> NoPayload, friendlyAdvice |-> <<>>]
\* res.status(status).json({ ok: false, message })
Failure(status, msg) == [NoResponse EXCEPT !.status = status, !.message = msg]
\* res.json({ ok: true, requestDetails, weatherData, friendlyAdvice })
Envelope(a, w, advice) ==
    [status |-> 200, ok |-> TRUE, message |-> <<>>, requestDetails |-> a,
     weatherData |-> w, friendlyAdvice |-> advice]

VARIABLES
    pc,            \* where the handler is: idle, one of its awaits, or done
    query,         \* req.body.query
    parsed,        \* what JSON.parse returned in analyzeQueryWithGaia
    analysis,      \* what analyzeQueryWithGaia returned
    weatherData,   \* what getNubilaWeather returned
    context,       \* weatherContext of generateLLMWeatherAdvice
    failed,        \* the stage that threw, and the message of its Error
    response,      \* what res.json sent
    sent,          \* how many times res.json was called
    calls,         \* the outbound fetches issued, in order
    inFlight,      \* the outbound fetches issued and not yet settled
    exContent,     \* extraction alone: the reply text
    exObj,         \* extraction alone: the object its member list denotes
    exOut,         \* extraction alone: the slice, the parse and the result
    now,           \* grouping alone: the wall clock, in epoch seconds
    forecastList,  \* grouping alone: the argument of groupForecastsByDay
    groups         \* grouping alone: the groups object, keys in insertion order
pipelineVars ==
    <<pc, query, parsed, analysis, weatherData, context, failed, response, sent,
      calls, inFlight>>
extractVars == <<exContent, exObj, exOut>>
groupVars == <<now, forecastList, groups>>
vars == <<pipelineVars, extractVars, groupVars>>

NoFailure == [stage |-> "none", message |-> <<>>]
NoExtraction ==
    [done |-> FALSE, slice |-> <<>>, parsed |-> EmptyObject, ok |-> FALSE,
     intent |-> EmptyObject, message |-> <<>>]
NotGrouped == [done |-> FALSE, keys |-> <<>>, lists |-> <<>>]

PipelineInit ==
    /\ pc = "idle"
    /\ query = Undef
    /\ parsed = EmptyObject
    /\ analysis = EmptyObject
    /\ weatherData = NoPayload
    /\ context = NoContext
    /\ failed = NoFailure
    /\ response = NoResponse
    /\ sent = 0
    /\ calls = <<>>
    /\ inFlight = {}
ExtractIdle ==
    /\ exContent = <<>>
    /\ exObj = EmptyObject
    /\ exOut = NoExtraction
GroupIdle ==
    /\ now = 0
    /\ forecastList = <<>>
    /\ groups = NotGrouped

Init == PipelineInit /\ ExtractIdle /\ GroupIdle

\* res.status(..).json(..) / res.json(..)
Send(r) == response' = r /\ sent' = sent + 1
\* await fetch(..): the settled fetch leaves, the new one is in flight
Issue(call, settled) ==
    /\ calls' = Append(calls, call)
    /\ inFlight' = (inFlight \ settled) \cup {call}
Settle(settled) == calls' = calls /\ inFlight' = inFlight \ settled

Respond500Mutant(stage, msg) ==
    /\ failed' = [stage |-> stage, message |-> msg]
    /\ UNCHANGED <<response, sent>>
    /\ pc' = "done"
\* the catch of the handler, lines 300-304
Respond500(stage, msg) ==
    /\ failed' = [stage |-> stage, message |-> msg]
    /\ Send(Failure(500, ErrorMessage(msg)))
    /\ pc' = "done"

ReceiveMutant ==
    /\ pc = "idle"
    /\ \E q \in QueryValues :
         /\ query' = q
         /\ IF QueryInvalid(q)
            THEN /\ Send(Failure(400, <<"Query parameter is required.">>))
                 /\ pc' = "done"
                 /\ Settle({})
            ELSE /\ calls' = <<"gaia:analyze", "nubila:weather">>
                 /\ inFlight' = {"gaia:analyze", "nubila:weather"}
                 /\ pc' = "awaitAnalysis"
                 /\ UNCHANGED <<response, sent>>
    /\ UNCHANGED <<parsed, analysis, weatherData, context, failed>>
    /\ UNCHANGED <<extractVars, groupVars>>
\* lines 266-275: the request arrives; a bad query is answered at once, else
\* analyzeQueryWithGaia issues its fetch
Receive ==
    /\ pc = "idle"
    /\ \E q \in QueryValues :
         /\ query' = q
         /\ IF QueryInvalid(q)
            THEN /\ Send(Failure(400, <<"Query parameter is required.">>))
                 /\ pc' = "done"
                 /\ Settle({})
            ELSE /\ Issue("gaia:analyze", {})
                 /\ pc' = "awaitAnalysis"
                 /\ UNCHANGED <<response, sent>>
    /\ UNCHANGED <<parsed, analysis, weatherData, context, failed>>
    /\ UNCHANGED <<extractVars, groupVars>>

\* lines 277-282, after analyzeQueryWithGaia returned a: the handler checks the
\* coordinates and getNubilaWeather checks them again, then issues its fetch
AfterAnalysis(a) ==
    IF CoordinatesMissing(a)
    THEN /\ Send(Failure(400, CoordinatesMessage(a, query)))
         /\ pc' = "done"
         /\ Settle({"gaia:analyze"})
         /\ UNCHANGED failed
    ELSE IF InvalidCoordinates(a.latitude, a.longitude)
    THEN /\ Respond500("weatherGuard", InvalidCoordinatesMessage)
         /\ Settle({"gaia:analyze"})
    ELSE /\ Issue("nubila:" \o Endpoint(a.requestType), {"gaia:analyze"})
         /\ pc' = "awaitWeather"
         /\ UNCHANGED <<failed, response, sent>>

AnalysisReplyMutant ==
    /\ pc = "awaitAnalysis"
    /\ Len(calls) < 3
    /\ Issue("gaia:analyze", {})
    /\ UNCHANGED <<pc, query, parsed, analysis, weatherData, context, failed,
                   response, sent>>
    /\ UNCHANGED <<extractVars, groupVars>>
\* lines 70-122 and 277-282: the analysis fetch settles
AnalysisReply ==
    /\ pc = "awaitAnalysis"
    /\ \E reply \in GaiaReplies(ExtractionContents), obj \in Analyses :
         LET r == analyzeQueryWithGaia(reply, obj)
         IN  IF ~r.ok
             THEN /\ Respond500("analysis", r.message)
                  /\ Settle({"gaia:analyze"})
                  /\ UNCHANGED <<parsed, analysis>>
             ELSE /\ parsed' = JsonParse(JsonSlice(reply.content.s), obj)
                  /\ analysis' = r.value
                  /\ AfterAnalysis(r.value)
    /\ UNCHANGED <<query, weatherData, context>>
    /\ UNCHANGED <<extractVars, groupVars>>

\* lines 142-205 and 226-240: the weather fetch settles; generateLLMWeatherAdvice
\* builds weatherContext and issues its fetch
WeatherReply ==
    /\ pc = "awaitWeather"
    /\ \E reply \in NubilaReplies :
         LET r == getNubilaWeather(reply)
             nubila == {"nubila:weather", "nubila:forecast"}
         IN  IF ~r.ok
             THEN /\ Respond500("weather", r.message)
                  /\ Settle(nubila)
                  /\ UNCHANGED <<weatherData, context>>
             ELSE /\ weatherData' = r.value
                  /\ IF NormalizeThrows(r.value.data)
                     THEN /\ Respond500("normalize", NormalizeError(r.value.data))
                          /\ Settle(nubila)
                          /\ UNCHANGED context
                     ELSE /\ context' = WeatherContext(r.value.data, analysis.locationName)
                          /\ Issue("gaia:advice", nubila)
                          /\ pc' = "awaitAdvice"
                          /\ UNCHANGED <<failed, response, sent>>
    /\ UNCHANGED <<query, parsed, analysis>>
    /\ UNCHANGED <<extractVars, groupVars>>

\* lines 242-264 and 293-298: the advice fetch settles; the envelope is sent
AdviceReply ==
    /\ pc = "awaitAdvice"
    /\ \E reply \in GaiaReplies(AdviceContents) :
         LET r == generateLLMWeatherAdvice(reply, weatherData.data, analysis.locationName)
         IN  IF r.ok
             THEN /\ failed' = [stage |-> IF AdviceError(reply) = <<>> THEN "none" ELSE "advice",
                                message |-> AdviceError(reply)]
                  /\ Send(Envelope(analysis, weatherData, r.value))
                  /\ pc' = "done"
             ELSE Respond500("advice", r.message)
    /\ Settle({"gaia:advice"})
    /\ UNCHANGED <<query, parsed, analysis, weatherData, context>>
    /\ UNCHANGED <<extractVars, groupVars>>

Next ==
    \/ Receive
    \/ AnalysisReply
    \/ WeatherReply
    \/ AdviceReply

Spec == Init /\ [][Next]_vars

\* ------------------------------------------------------ extraction alone
\* the inner try of analyzeQueryWithGaia (lines 88-116) applied to a reply text
ExtractObjects ==
    [locationName : {Str(<<"Paris">>), Undef},
     latitude : {Num(48), Str(<<"2.35">>)},
     longitude : {Num(48), Null},
     requestType : {Str(<<"current">>), Undef}]

ExtractInit ==
    /\ exContent \in SeqsUpTo(Pieces, MaxReplyLen)
    /\ exObj \in ExtractObjects
    /\ exOut = NoExtraction

Extract ==
    /\ ~exOut.done
    /\ LET r == ParseAnalysis(exContent, exObj)
           found == IndexOf(exContent, "{") # -1 /\ LastIndexOf(exContent, "}") # -1
           slice == IF found THEN JsonSlice(exContent) ELSE <<>>
       IN  exOut' =
             [done |-> TRUE,
              slice |-> slice,
              parsed |-> IF found /\ JsonParses(slice)
                         THEN JsonParse(slice, exObj) ELSE EmptyObject,
              ok |-> r.ok,
              intent |-> IF r.ok THEN r.value ELSE EmptyObject,
              message |-> r.message]
    /\ UNCHANGED <<exContent, exObj, pipelineVars, groupVars>>

InitExtract == PipelineInit /\ ExtractInit /\ GroupIdle
SpecExtract == InitExtract /\ [][Extract]_vars

\* ---------------------------------------------------------- forecast grouper
\* script.js, groupForecastsByDay.  Dates are epoch milliseconds; the local
\* time zone is taken to be UTC, and the dates fall in January 1970 so that
\* the month and the day of the month are read off the epoch day.
MsPerSecond == 1000
MsPerDay == 86400000
MsPerHour == 3600000

StartOfDayMutant(ms) == ms
\* date.setHours(0,0,0,0); date.getTime()
StartOfDay(ms) == ms - (ms % MsPerDay)

\* tomorrow.setDate(today.getDate() + 1)
NextDay(ms) == ms + MsPerDay

WeekdayNames ==
    <<"Sunday", "Monday", "Tuesday", "Wednesday", "Thursday", "Friday", "Saturday">>

\* date.toLocaleDateString([], { weekday: 'long', month: 'short', day: 'numeric' })
\* of a start of day; 1 January 1970 was a Thursday
WeekdayLabel(ms) ==
    <<WeekdayNames[(((ms \div MsPerDay) + 4) % 7) + 1], ", Jan ">>
    \o Digits((ms \div MsPerDay) + 1)

\* dayLabel of one forecast, lines 264-274
DayLabel(forecast, clock) ==
    LET today == StartOfDay(clock)
        tomorrow == NextDay(today)
        date == StartOfDay(forecast.timestamp * MsPerSecond)
    IN  IF date = today THEN <<"Today">>
        ELSE IF date = tomorrow THEN <<"Tomorrow">>
        ELSE WeekdayLabel(date)

KeyIndex(g, label) ==
    IF \E i \in 1..Len(g.keys) : g.keys[i] = label
    THEN CHOOSE i \in 1..Len(g.keys) : g.keys[i] = label
    ELSE 0

\* lines 276-279: if (!groups[dayLabel]) groups[dayLabel] = []; then push
PushForecast(g, label, forecast) ==
    IF KeyIndex(g, label) = 0
    THEN [g EXCEPT !.keys = Append(g.keys, label),
                   !.lists = Append(g.lists, <<forecast>>)]
    ELSE [g EXCEPT !.lists[KeyIndex(g, label)] = Append(@, forecast)]

\* forecastList.forEach, from the groups built so far
RECURSIVE GroupFrom(_, _, _)
GroupFrom(list, g, clock) ==
    IF list = <<>> THEN g
    ELSE GroupFrom(Tail(list), PushForecast(g, DayLabel(Head(list), clock), Head(list)),
                   clock)

groupForecastsByDay(list, clock) ==
    [GroupFrom(list, NotGrouped, clock) EXCEPT !.done = TRUE]

\* the clock on 11 January 1970: at midnight, and in the afternoon
Noon == 10 * MsPerDay + 13 * MsPerHour + 500
NowValues == {10 * MsPerDay, Noon}
\* forecast timestamps, in epoch seconds: the day before at 23:59:59, that day
\* at 03:00 and 21:00, the next day at 00:00 and 12:00, two days later at 09:00
Timestamps ==
    {10 * 86400 - 1, 10 * 86400 + 3 * 3600, 10 * 86400 + 21 * 3600,
     11 * 86400, 11 * 86400 + 12 * 3600, 12 * 86400 + 9 * 3600}
Forecasts == {[timestamp |-> t] : t \in Timestamps}

GroupInit ==
    /\ now \in NowValues
    /\ forecastList \in SeqsUpTo(Forecasts, MaxForecastLen)
    /\ groups = NotGrouped

\* the presentation layer calls groupForecastsByDay(forecastList)
Group ==
    /\ ~groups.done
    /\ groups' = groupForecastsByDay(forecastList, now)
    /\ UNCHANGED <<now, forecastList, pipelineVars, extractVars>>

InitGroup == PipelineInit /\ ExtractIdle /\ GroupInit
SpecGroup == InitGroup /\ [][Group]_vars

\* ------------------------------------------------------------------ claims
IsNubilaCall(c) == c \in {"nubila:weather", "nubila:forecast"}
WeatherCalled == \E i \in 1..Len(calls) : IsNubilaCall(calls[i])
AdviceCalled == \E i \in 1..Len(calls) : calls[i] = "gaia:advice"

\* analyzeQueryWithGaia has returned an Intent
Extracted ==
    /\ Len(calls) >= 1
    /\ pc # "awaitAnalysis"
    /\ failed.stage # "analysis"

\* getNubilaWeather has returned a payload
Retrieved ==
    /\ WeatherCalled
    /\ pc # "awaitWeather"
    /\ failed.stage # "weather"

\* C1: when extraction succeeds with latitude null or longitude null, the
\* handler answers 400 {ok:false, message} and getNubilaWeather is never called
C1_NullCoordinatesAnswer400 ==
    (Extracted /\ (analysis.latitude = Null \/ analysis.longitude = Null))
    => /\ pc = "done"
       /\ response.status = 400
       /\ response.ok = FALSE
       /\ response.message # <<>>
       /\ ~WeatherCalled
       /\ calls = <<"gaia:analyze">>

\* a run where only one coordinate came out null was answered 400
C1_Witness ==
    /\ Extracted
    /\ analysis.latitude = Null
    /\ analysis.longitude = Num(48)
    /\ response.status = 400

\* C2: when the advice call fails in any way (transport, status, missing
\* content), the advice step still returns and the request ends 200 ok:true
AdviceFailures ==
    {FetchFailed, StatusMessage(503), BadBody, TypeErrorUndefined,
     <<"Invalid response format from Gaia for weather advice: No content.">>}
C2_AdviceFailureStill200 ==
    (failed.stage = "advice")
    => /\ failed.message \in AdviceFailures
       /\ pc = "done"
       /\ response.status = 200
       /\ response.ok = TRUE
       /\ response.friendlyAdvice # <<>>
       /\ response.weatherData = weatherData
       /\ response.requestDetails = analysis

\* the advice endpoint answered a non-success status and the run ended 200
C2_Witness ==
    /\ failed.stage = "advice"
    /\ failed.message = StatusMessage(503)
    /\ response.status = 200

\* the temperature of a reading: temperature when present, else temp
ReadingTemperature(r) == IF r.temperature # Undef THEN r.temperature ELSE r.temp

\* C3: the advice text is never empty, and the fallback contains the location
\* name and the current temperature of the current reading, 0 included
C3_FallbackHasLocationAndTemperature ==
    /\ (response.status = 200 => response.friendlyAdvice # <<>>)
    /\ (failed.stage = "advice" /\ response.status = 200)
       => /\ Includes(response.friendlyAdvice, ToStr(analysis.locationName))
          /\ Includes(response.friendlyAdvice,
                      ToStr(ReadingTemperature(CurrentData(weatherData.data))))

\* C4: with numeric coordinates, a run whose retrieval succeeds ends with a 200
\* envelope, ok true, carrying the extracted requestType unchanged
C4_RetrievedEnds200WithRequestType ==
    (pc = "done" /\ Retrieved)
    => /\ response.status = 200
       /\ response.ok = TRUE
       /\ response.requestDetails.requestType = parsed.requestType

\* C5: the returned Intent has latitude and longitude both numbers or both null
C5_CoordinatesBothOrNeither ==
    Extracted
    => \/ TypeOf(analysis.latitude) = "number" /\ TypeOf(analysis.longitude) = "number"
       \/ analysis.latitude = Null /\ analysis.longitude = Null

RequestTypeLiterals == {Str(<<"current">>), Str(<<"forecast">>)}

\* C6 as stated: requestType of every returned Intent, and of requestDetails
\* of every success envelope, is "current" or "forecast"
C6_RequestTypeIsLiteral ==
    /\ Extracted => analysis.requestType \in RequestTypeLiterals
    /\ response.status = 200 => response.requestDetails.requestType \in RequestTypeLiterals

\* C6 as amended: requestType of every returned Intent, and of requestDetails
\* of every success envelope, is defined and is the value the reply gave
C6_RequestTypeIsDefined ==
    /\ Extracted
       => /\ TypeOf(analysis.requestType) # "undefined"
          /\ analysis.requestType = parsed.requestType
    /\ response.status = 200
       => /\ TypeOf(response.requestDetails.requestType) # "undefined"
          /\ response.requestDetails.requestType = parsed.requestType

\* a success envelope carries a requestType that is neither literal
C6_Witness ==
    /\ response.status = 200
    /\ response.requestDetails.requestType = Str(<<"hourly">>)

\* a query that is missing, not a string, empty or only whitespace
Blank(q) == q.t # "string" \/ \A i \in 1..Len(q.s) : q.s[i] = " "

\* C7: a missing, non-string, empty or whitespace query is answered 400
\* {ok:false, message} and no outbound call is issued
C7_BlankQueryAnswer400 ==
    (pc # "idle" /\ Blank(query))
    => /\ pc = "done"
       /\ response.status = 400
       /\ response.ok = FALSE
       /\ response.message # <<>>
       /\ calls = <<>>

\* a whitespace-only query was answered 400
C7_Witness ==
    /\ query = Str(<<" ", " ">>)
    /\ response.status = 400
    /\ calls = <<>>

\* C8: a failed interpretation or retrieval ends the request with 500
\* {ok:false, message}, the message being the stage's error message, no later
\* stage is started, and no success envelope carries weatherData.ok false
C8_StageFailureAnswer500 ==
    /\ failed.stage \in {"analysis", "weather"}
       => /\ pc = "done"
          /\ response.status = 500
          /\ response.ok = FALSE
          /\ failed.message # <<>>
          /\ response.message = failed.message
          /\ ~AdviceCalled
          /\ context = NoContext
    /\ failed.stage = "analysis"
       => /\ calls = <<"gaia:analyze">>
          /\ analysis = EmptyObject
    /\ failed.stage = "weather" => Len(calls) = 2 /\ weatherData = NoPayload
    /\ response.status = 200 => response.weatherData.ok # "false"

\* the provider answered ok:false with a message and the run ended 500 with it
C8_Witness ==
    /\ failed.stage = "weather"
    /\ response.status = 500
    /\ response.message = CouldNotFetch(<<"quota exceeded">>)

\* C9: building the context never raises for a payload the retriever returned
C9_NormalizeNeverThrows ==
    Retrieved
    => /\ failed.stage # "normalize"
       /\ response.status # 500

Summary(r) ==
    [condition |-> r.condition, description |-> r.condition_desc,
     tempMin |-> r.temperature_min, tempMax |-> r.temperature_max,
     humidity |-> r.humidity]

\* the current part of a context is read from reading r
CurrentFrom(c, r) ==
    /\ c.temperature \in {r.temperature, r.temp}
    /\ c.feelsLike = r.feels_like
    /\ c.condition = r.condition
    /\ c.description = r.condition_desc
    /\ c.windSpeed = r.wind_speed
    /\ c.humidity = r.humidity

\* C10: the context has a forecast summary exactly when data is an array of at
\* least two entries; the summary is then entry 1 and the current reading
\* entry 0; for a single object the current reading is the object, no summary
C10_ForecastSummaryFromEntryOne ==
    AdviceCalled
    => LET d == weatherData.data
       IN  /\ context.hasForecast <=> (d.t = "array" /\ Len(d.arr) >= 2)
           /\ context.hasForecast => context.tomorrow = Summary(d.arr[2])
           /\ ~context.hasForecast => context.tomorrow = NoForecast
           /\ d.t = "array" => CurrentFrom(context.current, d.arr[1])
           /\ d.t # "array" => d.t = "object" /\ CurrentFrom(context.current, d.obj)

\* a forecast payload whose entries 0 and 1 differ was normalized
C10_Witness ==
    /\ AdviceCalled
    /\ context.hasForecast
    /\ weatherData.data.arr[1].condition # weatherData.data.arr[2].condition
    /\ context.tomorrow.condition = weatherData.data.arr[2].condition
\* the epoch day of a forecast and of the clock
DayOf(forecast) == (forecast.timestamp * MsPerSecond) \div MsPerDay
Today == now \div MsPerDay
IsWeekdayLabel(label) == \E i \in 1..7 : label[1] = WeekdayNames[i]

\* the day label the claim gives a forecast
LabelOf(forecast) ==
    IF DayOf(forecast) = Today THEN <<"Today">>
    ELSE IF DayOf(forecast) = Today + 1 THEN <<"Tomorrow">>
    ELSE WeekdayLabel(DayOf(forecast) * MsPerDay)

\* the entries of the input that carry a label, in input order
WithLabel(label) ==
    LET Has(f) == LabelOf(f) = label IN SelectSeq(forecastList, Has)
FirstIndex(label) ==
    CHOOSE i \in 1..Len(forecastList) :
        /\ LabelOf(forecastList[i]) = label
        /\ \A j \in 1..(i - 1) : LabelOf(forecastList[j]) # label
CountOn(day) ==
    Cardinality({i \in 1..Len(forecastList) : DayOf(forecastList[i]) = day})

\* C11: groupForecastsByDay partitions its input by day label: each group is
\* the entries of its label in input order, every entry is in one group, the
\* labels are Today, Tomorrow or a weekday label, the groups come in order of
\* first occurrence, and 2 + 2 + 1 entries over three days give sizes [2,2,1]
C11_GroupsPartitionByDayLabel ==
    groups.done
    => /\ Len(groups.keys) = Len(groups.lists)
       /\ \A i, j \in 1..Len(groups.keys) : i # j => groups.keys[i] # groups.keys[j]
       /\ \A i \in 1..Len(groups.keys) :
            /\ groups.lists[i] = WithLabel(groups.keys[i])
            /\ groups.lists[i] # <<>>
       /\ \A k \in 1..Len(forecastList) :
            /\ \E i \in 1..Len(groups.keys) : groups.keys[i] = LabelOf(forecastList[k])
            /\ LabelOf(forecastList[k]) = <<"Today">> <=> DayOf(forecastList[k]) = Today
            /\ LabelOf(forecastList[k]) = <<"Tomorrow">>
                 <=> DayOf(forecastList[k]) = Today + 1
            /\ DayOf(forecastList[k]) \notin {Today, Today + 1}
                 => IsWeekdayLabel(LabelOf(forecastList[k]))
       /\ \A i, j \in 1..Len(groups.keys) :
            i < j => FirstIndex(groups.keys[i]) < FirstIndex(groups.keys[j])
       /\ (/\ Len(forecastList) = 5
           /\ CountOn(Today) = 2 /\ CountOn(Today + 1) = 2 /\ CountOn(Today + 2) = 1
           /\ LabelOf(forecastList[1]) = <<"Today">>
           /\ LabelOf(forecastList[5]) \notin {<<"Today">>, <<"Tomorrow">>})
          => /\ Len(groups.keys) = 3
             /\ groups.keys[1] = <<"Today">>
             /\ groups.keys[2] = <<"Tomorrow">>
             /\ IsWeekdayLabel(groups.keys[3])
             /\ [i \in 1..3 |-> Len(groups.lists[i])] = <<2, 2, 1>>

\* five entries, interleaved over today, tomorrow and two days later, were
\* grouped into sizes 2, 2, 1
C11_Witness ==
    /\ groups.done
    /\ now = Noon
    /\ Len(forecastList) = 5
    /\ [i \in 1..5 |-> DayOf(forecastList[i]) - Today] = <<0, 1, 0, 1, 2>>
    /\ forecastList[1] # forecastList[3]
    /\ groups.keys = <<<<"Today">>, <<"Tomorrow">>, <<"Tuesday", ", Jan ", "1", "3">>>>
    /\ groups.lists[1] = <<forecastList[1], forecastList[3]>>
    /\ groups.lists[2] = <<forecastList[2], forecastList[4]>>
    /\ groups.lists[3] = <<forecastList[5]>>
\* how many times a call was issued
Issued(call) == Cardinality({i \in 1..Len(calls) : calls[i] = call})
NubilaIssued == Issued("nubila:weather") + Issued("nubila:forecast")

\* C12: the stages of a run are sequential: the weather call is issued only
\* after the analysis call completed successfully, the context and the advice
\* call come only after the weather call completed successfully, and no two
\* outbound calls are in flight together
C12_StagesSequential ==
    /\ Cardinality(inFlight) <= 1
    /\ \A i \in 1..Len(calls) :
         calls[i] = <<"gaia:analyze", calls[i], "gaia:advice">>[i]
    /\ WeatherCalled
       => /\ calls[1] = "gaia:analyze"
          /\ IsNubilaCall(calls[2])
          /\ "gaia:analyze" \notin inFlight
          /\ failed.stage # "analysis"
          /\ analysis # EmptyObject
    /\ (AdviceCalled \/ context # NoContext)
       => /\ Len(calls) = 3
          /\ IsNubilaCall(calls[2])
          /\ \A c \in inFlight : ~IsNubilaCall(c)
          /\ failed.stage \notin {"analysis", "weather"}
          /\ weatherData # NoPayload
          /\ context # NoContext
    /\ pc = "awaitAnalysis" <=> inFlight = {"gaia:analyze"}
    /\ pc = "awaitWeather" <=> (\E c \in inFlight : IsNubilaCall(c))
    /\ pc = "awaitAdvice" <=> inFlight = {"gaia:advice"}

\* the advice call is the only one in flight, after the two others
C12_Witness ==
    /\ pc = "awaitAdvice"
    /\ calls = <<"gaia:analyze", "nubila:forecast", "gaia:advice">>
    /\ inFlight = {"gaia:advice"}

\* C13: nothing is retried: each outbound call is issued at most once in a
\* run, and one failure of the analysis call or of the weather call ends the
\* request with a failure
C13_NoRetry ==
    /\ Issued("gaia:analyze") <= 1
    /\ NubilaIssued <= 1
    /\ Issued("gaia:advice") <= 1
    /\ failed.stage = "analysis"
       => pc = "done" /\ response.status = 500 /\ calls = <<"gaia:analyze">> /\ inFlight = {}
    /\ failed.stage = "weather"
       => pc = "done" /\ response.status = 500 /\ Len(calls) = 2 /\ inFlight = {}

\* the weather fetch was rejected once and the request ended 500
C13_Witness ==
    /\ failed = [stage |-> "weather", message |-> CouldNotFetch(FetchFailed)]
    /\ NubilaIssued = 1
    /\ response.status = 500

\* C15: getNubilaWeather is invoked only with latitude and longitude that are
\* both non-null numbers, so its own rejection is never reached
C15_RetrieverGuardNeverReached ==
    /\ failed.stage # "weatherGuard"
    /\ (Extracted /\ ~CoordinatesMissing(analysis))
       => /\ TypeOf(analysis.latitude) = "number"
          /\ TypeOf(analysis.longitude) = "number"

\* C16: the current temperature of the context is the reading's temperature
\* whenever that field is present, 0 included, and its temp only otherwise
C16_TemperaturePreferred ==
    AdviceCalled
    => context.current.temperature = ReadingTemperature(CurrentData(weatherData.data))

\* C17: a run whose outbound calls all complete sends exactly one response,
\* with status 200, 400 or 500: never two, and never none at the end, and
\* until it ends it is waiting for an outbound call
C17_ExactlyOneResponse ==
    /\ sent <= 1
    /\ pc = "done"
       => /\ sent = 1
          /\ response.status \in {200, 400, 500}
          /\ inFlight = {}
          /\ response.ok <=> response.status = 200
    /\ pc # "done" => sent = 0 /\ response = NoResponse
    /\ pc \notin {"idle", "done"} => Cardinality(inFlight) = 1

\* the context could not be built inside the advice step and the run ended
\* with one 500
C17_Witness ==
    /\ pc = "done"
    /\ failed.stage = "normalize"
    /\ sent = 1
    /\ response.status = 500
\* the positions of the first '{' and of the last '}' of the reply text
Opens == {i \in 1..Len(exContent) : exContent[i] = "{"}
Closes == {i \in 1..Len(exContent) : exContent[i] = "}"}
FirstOpen == CHOOSE i \in Opens : \A j \in Opens : i <= j
LastClose == CHOOSE i \in Closes : \A j \in Closes : j <= i
\* one object, with prose before and after it and no other brace
OneObjectInProse ==
    \E i \in 1..(Len(exContent) - 2) :
        /\ SubSeq(exContent, i, i + 2) = <<"{", "f", "}">>
        /\ \A j \in 1..Len(exContent) : j \notin i..(i + 2) => exContent[j] = "p"

\* C14: the extraction parses the slice from the first '{' to the last '}'
\* inclusive; one object embedded in prose yields exactly that object; a text
\* with no '{' or no '}' fails with the no-JSON-object error; a slice that does
\* not parse fails with the malformed-JSON error; a failure returns no Intent
C14_ExtractionFirstToLastBrace ==
    exOut.done
    => /\ (Opens # {} /\ Closes # {} /\ FirstOpen <= LastClose)
          => exOut.slice = SubSeq(exContent, FirstOpen, LastClose)
       /\ OneObjectInProse => exOut.parsed = exObj
       /\ (Opens = {} \/ Closes = {})
          => /\ ~exOut.ok
             /\ exOut.message =
                  FailedToParse(<<"Could not find JSON object in Gaia response.">>)
       /\ (Opens # {} /\ Closes # {} /\ ~JsonParses(exOut.slice))
          => /\ ~exOut.ok
             /\ exOut.message = FailedToParse(JsonSyntaxError)
       /\ (Opens # {} /\ Closes # {} /\ FirstOpen > LastClose) => ~exOut.ok
       /\ ~exOut.ok => exOut.intent = EmptyObject /\ exOut.message # <<>>
       /\ exOut.ok => exOut.parsed \in {exObj, EmptyObject} /\ exOut.message = <<>>

\* "Sure! {...} Hope that helps!" gave exactly the embedded object
C14_Witness ==
    /\ exOut.done
    /\ exContent = <<"p", "{", "f", "}", "p">>
    /\ exObj.locationName = Str(<<"Paris">>)
    /\ exObj.requestType = Str(<<"current">>)
    /\ exOut.ok
    /\ exOut.parsed = exObj
    /\ exOut.slice = <<"{", "f", "}">>
====
